---------------------------- MODULE Spec2Model ----------------------------
(***************************************************************************)
(* Model of backend/main.py: the in-memory watchlist (symbol_data,         *)
(* current_contracts, clients), the tick callback _on_pending_tickers,     *)
(* the coroutines _subscribe, _do_order and _broadcast_update that run on  *)
(* the IB worker's event loop, and the request handlers that run on other  *)
(* threads (get_watchlist on the HTTP thread pool, watchlist_ws on the web *)
(* server's loop).                                                         *)
(*                                                                         *)
(* Code that runs on the IB loop is atomic between two awaits with respect *)
(* to every other task of that loop; code on other threads interleaves     *)
(* with it statement by statement.                                         *)
(***************************************************************************)
EXTENDS Integers, Sequences, FiniteSets, TLC

(***************************************************************************)
(* Python values.  A float is carried as an integer count of 1/Scale       *)
(* (binary fixed point, rounded to nearest like a double); None and nan    *)
(* are two values outside the numbers.  Numbers of the model are >= 0      *)
(* except a risk, which is a local of _do_order.                           *)
(***************************************************************************)
None == -1
NaN == -2
Scale == 2^20

F(n) == n * Scale

\* isinstance(x, (int, float)): nan is a float
IsNumber(x) == x # None

\* isinstance(x, (int, float)) and math.isfinite(x)
IsFinite(x) == x # None /\ x # NaN

Max(a, b) == IF a >= b THEN a ELSE b

\* the binary digits of r / b below the point, from weight w down, and the
\* remainder left (0 <= r < b)
RECURSIVE FracDigits(_, _, _)
FracDigits(r, b, w) ==
    IF w = 0 THEN <<0, r>>
    ELSE LET d == IF 2 * r >= b THEN 1 ELSE 0
             rest == FracDigits(2 * r - d * b, b, w \div 2)
         IN  <<d * w + rest[1], rest[2]>>

\* a / b on floats (a >= 0, b > 0), rounded to nearest, ties to even
FDiv(a, b) ==
    LET fr == FracDigits(a % b, b, Scale \div 2)
        t == (a \div b) * Scale + fr[1]
    IN  IF 2 * fr[2] > b \/ (2 * fr[2] = b /\ t % 2 = 1) THEN t + 1 ELSE t

\* a * b on floats; exact when b is a whole number
FMul(a, b) == a * (b \div Scale) + (a * (b % Scale)) \div Scale

\* a // b on floats (b > 0): the floor of the exact quotient, as an int
FloorDiv(a, b) == a \div b


(***************************************************************************)
(* Strings.  A str is a sequence of one-character strings.                 *)
(***************************************************************************)
IsSpace(c) == c \in {" ", "\t", "\n"}

Upper(c) == CASE c = "a" -> "A" [] c = "b" -> "B" [] c = "c" -> "C" [] OTHER -> c

RECURSIVE LStrip(_)
LStrip(s) == IF s # <<>> /\ IsSpace(Head(s)) THEN LStrip(Tail(s)) ELSE s

RECURSIVE RStrip(_)
RStrip(s) ==
    IF s # <<>> /\ IsSpace(s[Len(s)]) THEN RStrip(SubSeq(s, 1, Len(s) - 1)) ELSE s

\* raw.strip().upper()
Normalize(raw) == LET t == RStrip(LStrip(raw)) IN [i \in 1..Len(t) |-> Upper(t[i])]

(***************************************************************************)
(* Bounds of the model and the inputs the handlers are driven with.        *)
(***************************************************************************)
MaxSymbols == 2   \* longest symbol list of a watchlist request
MaxVolume == 4    \* traded volume fed to one symbol between two subscriptions
MaxPending == 1   \* broadcasts scheduled and not yet started
MaxClients == 3   \* websockets that connect

RawSymbols == {<<"A">>, <<" ", "a">>, <<"b", " ">>}
Symbols == {Normalize(r) : r \in RawSymbols}

RECURSIVE SeqsUpTo(_, _)
SeqsUpTo(S, n) ==
    IF n = 0 THEN {<<>>}
    ELSE LET shorter == SeqsUpTo(S, n - 1)
         IN  shorter \cup {Append(q, x) : q \in {r \in shorter : Len(r) = n - 1}, x \in S}

WatchlistReqs == [symbols : SeqsUpTo(RawSymbols, MaxSymbols), testMode : BOOLEAN]

Prices == {F(100), F(105)}

\* datetime.now().time(), in minutes since midnight
TRADING_START == 9 * 60 + 30
TRADING_END == 16 * 60
Times == {TRADING_START - 1, TRADING_END}

\* a Ticker as the callback reads it: contract.symbol, last, marketPrice(), lastSize
Tickers ==
    [symbol : Symbols, last : {None, NaN} \cup Prices, marketPrice : {NaN, F(100)},
     lastSize : {NaN, F(0), F(2)}]

(***************************************************************************)
(* symbol_data: a dict in insertion order, as the sequence of its values,  *)
(* each carrying its key in .sym.                                          *)
(***************************************************************************)
Keys(sd) == {sd[i].sym : i \in DOMAIN sd}

Has(sd, sym) == sym \in Keys(sd)

IndexOf(sd, sym) == CHOOSE i \in DOMAIN sd : sd[i].sym = sym

Get(sd, sym) == sd[IndexOf(sd, sym)]

\* symbol_data[sym] = entry: a new key goes last, a known key keeps its place
DictSet(sd, entry) ==
    IF Has(sd, entry.sym) THEN [sd EXCEPT ![IndexOf(sd, entry.sym)] = entry]
    ELSE Append(sd, entry)

\* the entries of a _subscribe that stamped no testMode on them
FreshEntry_TestModeOff(sym, testMode) ==
    [sym |-> sym, price |-> None, hod |-> None, lod |-> None, vwap_num |-> F(0),
     vwap_den |-> F(0), vwap |-> None, testMode |-> FALSE]

\* the value _subscribe stores for a symbol
FreshEntry(sym, testMode) ==
    [sym |-> sym, price |-> None, hod |-> None, lod |-> None, vwap_num |-> F(0),
     vwap_den |-> F(0), vwap |-> None, testMode |-> testMode]

\* the four fields get_watchlist and _broadcast_update report for an entry
Fields(e) == [price |-> e.price, hod |-> e.hod, lod |-> e.lod, vwap |-> e.vwap]

\* the mapping both build when nothing interleaves with the comprehension
Snapshot(sd) == [s \in Keys(sd) |-> Fields(Get(sd, s))]

(***************************************************************************)
(* _on_pending_tickers, statement by statement, on one entry.              *)
(***************************************************************************)
\* TRADING_START <= now <= TRADING_END
InSession(now) == TRADING_START <= now /\ now <= TRADING_END

\* a slip: the session test dropped, every tick counted as in session
InRth_NoSessionTest(e, now) == TRUE

InRth(e, now) == e.testMode \/ InSession(now)

\* t.last if isinstance(t.last, (int, float)) else t.marketPrice()
ResolvePrice(t) == IF IsNumber(t.last) THEN t.last ELSE t.marketPrice

\* getattr(t, "lastSize", 0) or 0
LastSize(t) == IF t.lastSize = None \/ t.lastSize = F(0) THEN F(0) ELSE t.lastSize

SizePositive(size) == size # NaN /\ size > 0

StmtPrice(e, p) == [e EXCEPT !.price = p]

StmtSeedHod(e, p, in_rth) == IF in_rth /\ e.hod = None THEN [e EXCEPT !.hod = p] ELSE e

\* runs in the same branch as StmtSeedHod, whose test was made before it
StmtSeedLod(e, p, seeded) == IF seeded THEN [e EXCEPT !.lod = p] ELSE e

\* a slip: hod follows the price without the comparison
StmtHod_Overwrite(e, p, in_rth) == IF in_rth THEN [e EXCEPT !.hod = p] ELSE e

StmtHod(e, p, in_rth) == IF in_rth /\ p > e.hod THEN [e EXCEPT !.hod = p] ELSE e

StmtLod(e, p, in_rth) == IF in_rth /\ p < e.lod THEN [e EXCEPT !.lod = p] ELSE e

\* a slip: the price added to the numerator without its size
StmtVwapNum_Unweighted(e, p, size, in_rth) ==
    IF in_rth /\ SizePositive(size) THEN [e EXCEPT !.vwap_num = @ + p] ELSE e

StmtVwapNum(e, p, size, in_rth) ==
    IF in_rth /\ SizePositive(size) THEN [e EXCEPT !.vwap_num = @ + FMul(p, size)] ELSE e

StmtVwapDen(e, size, in_rth) ==
    IF in_rth /\ SizePositive(size) THEN [e EXCEPT !.vwap_den = @ + size] ELSE e

StmtVwap(e, size, in_rth) ==
    IF in_rth /\ SizePositive(size)
    THEN [e EXCEPT !.vwap = FDiv(e.vwap_num, e.vwap_den)] ELSE e

\* the body of the loop for a ticker whose symbol is tracked
ApplyTick(e, t, now) ==
    LET in_rth == InRth(e, now)
        p == ResolvePrice(t)
        size == LastSize(t)
        e1 == StmtPrice(e, p)
        seeded == in_rth /\ e1.hod = None
        e2 == StmtSeedLod(StmtSeedHod(e1, p, in_rth), p, seeded)
        e3 == StmtLod(StmtHod(e2, p, in_rth), p, in_rth)
        e4 == StmtVwapDen(StmtVwapNum(e3, p, size, in_rth), size, in_rth)
    IN  IF ~IsFinite(p) THEN e ELSE StmtVwap(e4, size, in_rth)

\* one pass of the loop: an untracked symbol is skipped
ApplyTicker(sd, t, now) ==
    IF ~Has(sd, t.symbol) THEN sd
    ELSE [sd EXCEPT ![IndexOf(sd, t.symbol)] = ApplyTick(@, t, now)]

RECURSIVE ApplyTickers(_, _, _)
ApplyTickers(sd, tickers, now) ==
    IF tickers = <<>> THEN sd
    ELSE ApplyTickers(ApplyTicker(sd, Head(tickers), now), Tail(tickers), now)

\* the trades a symbol was fed since its entry was installed: of the tickers
\* of a batch, those for a tracked symbol that are in session for its entry,
\* with a finite resolved price and a positive size, as <<price, size>>
NoTrades == [s \in Symbols |-> <<>>]

RecordTrade(tr, sd, t, now) ==
    IF /\ Has(sd, t.symbol)
       /\ InRth(Get(sd, t.symbol), now)
       /\ IsFinite(ResolvePrice(t))
       /\ SizePositive(LastSize(t))
    THEN [tr EXCEPT ![t.symbol] = Append(@, <<ResolvePrice(t), LastSize(t)>>)]
    ELSE tr

RECURSIVE RecordTrades(_, _, _, _)
RecordTrades(tr, sd, tickers, now) ==
    IF tickers = <<>> THEN tr
    ELSE RecordTrades(RecordTrade(tr, sd, Head(tickers), now), sd, Tail(tickers), now)

(***************************************************************************)
(* _subscribe, up to its await.                                            *)
(***************************************************************************)
\* for c in current_contracts: ib.cancelMktData(c)
CancelCalls(cc) == [i \in 1..Len(cc) |-> <<"cancelMktData", cc[i]>>]

\* the loop over req.symbols, from the i-th symbol on
RECURSIVE InstallFrom(_, _, _, _)
InstallFrom(sd, symbols, testMode, i) ==
    IF i > Len(symbols) THEN sd
    ELSE InstallFrom(DictSet(sd, FreshEntry(Normalize(symbols[i]), testMode)),
                     symbols, testMode, i + 1)

\* contracts = [Stock(sym, "SMART", "USD") for sym in symbol_data]
ContractsOf(sd) == [i \in 1..Len(sd) |-> sd[i].sym]

\* the two reqMktData calls per contract, in order
RECURSIVE RequestCalls(_)
RequestCalls(contracts) ==
    IF contracts = <<>> THEN <<>>
    ELSE <<<<"reqMktData snapshot", Head(contracts)>>,
           <<"reqMktData stream", Head(contracts)>>>> \o RequestCalls(Tail(contracts))

(***************************************************************************)
(* _do_order, up to its await: what it raises or what it is about to place.*)
(***************************************************************************)
Sides == {"BUY", "SELL"}
Refs == {"HOD", "LOD", "VWAP", "CUSTOM"}

FixedRisk == 200
LotSize == 10

\* the float literal 0.01: the float nearest to 1/100, which is above it
RiskFloor == FDiv(F(1), F(100))

NoExc == [type |-> "", msg |-> ""]
ValueError(msg) == [type |-> "ValueError", msg |-> msg]
TypeError == [type |-> "TypeError", msg |-> "unsupported operand type(s) for -"]

Outcome(exc, price, stop, risk, qty) ==
    [exc |-> exc, price |-> price, stop |-> stop, risk |-> risk, qty |-> qty]

\* (stop - price) if side == "SELL" else (price - stop)
RiskOf(side, stop, price) == IF side = "SELL" THEN stop - price ELSE price - stop

\* entry["hod"] if ref == "HOD" else entry["lod"] if ref == "LOD" else entry["vwap"]
ReferenceOf(entry, ref) ==
    IF ref = "HOD" THEN entry.hod ELSE IF ref = "LOD" THEN entry.lod ELSE entry.vwap

\* max((int(200 // risk) // 10) * 10, 10)
Quantity(risk) ==
    Max((FloorDiv(F(FixedRisk), risk) \div LotSize) * LotSize, LotSize)

\* a slip: the customStop test dropped, so that None is used as the stop
DoOrderCompute_NoCustomStopTest(sd, symbol, side, ref, customStop) ==
    IF ~Has(sd, symbol) THEN Outcome(ValueError("not in watchlist"), None, None, None, 0)
    ELSE IF Get(sd, symbol).price = None
    THEN Outcome(ValueError("Current price not available"), None, None, None, 0)
    ELSE LET price == Get(sd, symbol).price
             stop == IF ref = "CUSTOM" THEN customStop
                     ELSE ReferenceOf(Get(sd, symbol), ref)
             raw == RiskOf(side, stop, price)
             risk == IF stop # None /\ raw > 0 THEN raw ELSE RiskFloor
         IN  Outcome(NoExc, price, stop, risk, Quantity(risk))

DoOrderCompute(sd, symbol, side, ref, customStop) ==
    IF ~Has(sd, symbol) THEN Outcome(ValueError("not in watchlist"), None, None, None, 0)
    ELSE LET entry == Get(sd, symbol)
             price == entry.price
             stop == IF ref = "CUSTOM" THEN customStop ELSE ReferenceOf(entry, ref)
             raw == RiskOf(side, stop, price)
             risk == IF raw > 0 THEN raw ELSE RiskFloor
         IN  IF price = None
             THEN Outcome(ValueError("Current price not available"), None, None, None, 0)
             ELSE IF ref = "CUSTOM" /\ customStop = None
             THEN Outcome(ValueError("customStop required for CUSTOM stop"),
                          price, None, None, 0)
             \* line 223 subtracts before line 225 tests the stop: None - price raises
             ELSE IF stop = None
             THEN Outcome(TypeError, price, stop, None, 0)
             ELSE Outcome(NoExc, price, stop, risk, Quantity(risk))

Resp(status, detail) == [status |-> status, detail |-> detail]
NoResp == Resp(0, "")
Pending == Resp(0, "pending")

\* place_order's mapping of what the coroutine returned or raised
OrderHttp(exc) ==
    IF exc = NoExc THEN Resp(200, "order")
    ELSE IF exc.type = "ValueError" THEN Resp(400, exc.msg)
    ELSE Resp(500, "Order error")

(***************************************************************************)
(* State.                                                                  *)
(*   symbol_data, current_contracts, clients: the module's globals.        *)
(*   ib_connected: ib.isConnected(); the worker thread connects once.      *)
(*   clock: the wall clock datetime.now() reads.                           *)
(*   loop: the task that holds the IB loop between two of its awaits.      *)
(*   sub: the update_watchlist requests and their _subscribe coroutines.   *)
(*   bcast: the _broadcast_update coroutines scheduled and the one running.*)
(*   ord: the place_order request and its _do_order coroutine.             *)
(*   tick: the _on_pending_tickers call in progress, where its statements  *)
(*         are interleaved with another thread.                            *)
(*   rd: the get_watchlist call in progress on an HTTP worker thread.      *)
(*   config: the normalized symbol set of the subscription that last       *)
(*           replaced symbol_data (the watchlist configuration).           *)
(*   trades: per symbol, the trades fed to its entry since it was          *)
(*           installed (a history of the inputs, read by no action).       *)
(***************************************************************************)
VARIABLES symbol_data, current_contracts, clients, ib_connected, clock, loop,
          config, sub, bcast, ord, tick, rd, trades

NSubs == 2        \* watchlist requests in progress at once
SubIds == 1..NSubs

Idle == <<"idle", 0>>

FreeSub ==
    [pc |-> "free", symbols |-> <<>>, testMode |-> FALSE, i |-> 0,
     contracts |-> <<>>, calls |-> <<>>, resp |-> "none", prior |-> {}]

NoPayload == [s \in {} |-> None]

\* start: the clients at the start of the loop over clients; gone: those of
\* them discarded by a disconnect since
IdleBcast ==
    [pending |-> 0, pc |-> "idle", payload |-> NoPayload, si_used |-> 0,
     start |-> {}, gone |-> {}, visited |-> {}, to_remove |-> {}, delivered |-> {}]

FreeOrd ==
    [pc |-> "free", symbol |-> <<>>, side |-> "", ref |-> "", customStop |-> None,
     exc |-> NoExc, price |-> None, stop |-> None, risk |-> None, qty |-> 0,
     calls |-> <<>>, resp |-> NoResp]

\* batch, i: the tickers of the call and the one the loop is at; now: the
\* time read at line 37; at: the place in symbol_data of the entry fetched at
\* line 40; in_rth, p, size: the locals; seeded: the branch of line 50 was
\* taken; before: the entry as it was when the loop reached this ticker
IdleTick ==
    [pc |-> "idle", batch |-> <<>>, i |-> 0, now |-> 0, at |-> 0, in_rth |-> FALSE,
     p |-> None, size |-> None, seeded |-> FALSE, before |-> FreshEntry(<<>>, FALSE)]

\* di_used, di_pos: the dict iterator; sym, at, live, ref: the item it gave
\* last (its key, its place, whether symbol_data still holds that dict object
\* and, if not, the object); k, cur: the fields read from it so far; out: the
\* mapping built; seen: the configurations current at some moment of the call
\* (config, and while a _subscribe is between its clear and its await the one
\* it replaces, sub[t].prior); vers: what the fields of the item were between
\* two tickers, at each such moment since the iterator gave it
IdleRd ==
    [pc |-> "idle", di_used |-> 0, di_pos |-> 0, sym |-> <<>>, at |-> 0,
     live |-> FALSE, ref |-> FreshEntry(<<>>, FALSE), k |-> 0,
     cur |-> Fields(FreshEntry(<<>>, FALSE)), out |-> NoPayload, seen |-> {},
     vers |-> {}]

\* _ib_worker: ib.connect succeeded and the callback is registered
IbWorkerConnect ==
    /\ ~ib_connected
    /\ ib_connected' = TRUE
    /\ UNCHANGED <<symbol_data, current_contracts, clients, clock, loop,
                   config, sub, bcast, ord, tick, rd, trades>>

\* time passes
ClockAdvance ==
    /\ clock' \in Times \ {clock}
    /\ UNCHANGED <<symbol_data, current_contracts, clients, ib_connected,
                   loop, config, sub, bcast, ord, tick, rd, trades>>

(***************************************************************************)
(* update_watchlist, on an HTTP worker thread.                             *)
(***************************************************************************)
\* a slip: the test for an empty list of symbols dropped
UpdateWatchlist_NoEmptyTest(t, req) ==
    /\ sub[t].pc = "free"
    /\ sub' = [sub EXCEPT ![t] =
                 IF ~ib_connected
                 THEN [FreeSub EXCEPT !.symbols = req.symbols, !.testMode = req.testMode,
                                      !.resp = "503 IB Gateway not connected"]
                 ELSE [FreeSub EXCEPT !.pc = "scheduled", !.symbols = req.symbols,
                                      !.testMode = req.testMode, !.i = 1,
                                      !.resp = "pending"]]
    /\ UNCHANGED <<symbol_data, current_contracts, clients, ib_connected,
                   clock, loop, config, bcast, ord, tick, rd, trades>>

UpdateWatchlist(t, req) ==
    /\ sub[t].pc = "free"
    /\ sub' = [sub EXCEPT ![t] =
                 IF ~ib_connected
                 THEN [FreeSub EXCEPT !.symbols = req.symbols, !.testMode = req.testMode,
                                      !.resp = "503 IB Gateway not connected"]
                 ELSE IF req.symbols = <<>>
                 THEN [FreeSub EXCEPT !.symbols = req.symbols, !.testMode = req.testMode,
                                      !.resp = "400 No symbols provided"]
                 ELSE [FreeSub EXCEPT !.pc = "scheduled", !.symbols = req.symbols,
                                      !.testMode = req.testMode, !.i = 1,
                                      !.resp = "pending"]]
    /\ UNCHANGED <<symbol_data, current_contracts, clients, ib_connected,
                   clock, loop, config, bcast, ord, tick, rd, trades>>

\* fut.result(timeout=15) returns
WatchlistReturn(t) ==
    /\ sub[t].pc = "done"
    /\ sub[t].resp = "pending"
    /\ sub' = [sub EXCEPT ![t] = [FreeSub EXCEPT !.resp = "200 subscribed"]]
    /\ UNCHANGED <<symbol_data, current_contracts, clients, ib_connected,
                   clock, loop, config, bcast, ord, tick, rd, trades>>

\* fut.result(timeout=15) raises: the caller gets a 500, the coroutine goes on
WatchlistTimeout(t) ==
    /\ sub[t].pc \notin {"free", "done"}
    /\ sub[t].resp = "pending"
    /\ sub' = [sub EXCEPT ![t].resp = "500 Subscription error"]
    /\ UNCHANGED <<symbol_data, current_contracts, clients, ib_connected,
                   clock, loop, config, bcast, ord, tick, rd, trades>>

(***************************************************************************)
(* _subscribe on the IB loop: from its start to its await in one step (no  *)
(* other task of the loop runs in between), then from the await to its end.*)
(***************************************************************************)
SubscribeSync(t) ==
    /\ loop = Idle
    /\ sub[t].pc = "scheduled"
    /\ current_contracts' = <<>>
    /\ symbol_data' = InstallFrom(<<>>, sub[t].symbols, sub[t].testMode, 1)
    /\ trades' = NoTrades
    /\ config' = Keys(symbol_data')
    /\ sub' = [sub EXCEPT ![t].pc = "await",
                          ![t].i = Len(sub[t].symbols) + 1,
                          ![t].contracts = ContractsOf(symbol_data'),
                          ![t].calls = CancelCalls(current_contracts)
                              \o <<<<"qualifyContracts", ContractsOf(symbol_data')>>>>]
    /\ UNCHANGED <<clients, ib_connected, clock, loop, bcast, ord, tick, rd>>

SubscribeResume(t) ==
    /\ loop = Idle
    /\ sub[t].pc = "await"
    /\ current_contracts' = current_contracts \o sub[t].contracts
    /\ sub' = [sub EXCEPT ![t] =
                 IF sub[t].resp = "pending"
                 THEN [@ EXCEPT !.pc = "done",
                                !.calls = @ \o RequestCalls(sub[t].contracts)]
                 ELSE [FreeSub EXCEPT !.resp = sub[t].resp]]
    /\ UNCHANGED <<symbol_data, clients, ib_connected, clock, loop, config,
                   bcast, ord, tick, rd, trades>>

(***************************************************************************)
(* _subscribe statement by statement, as a thread that reads symbol_data   *)
(* sees it.  The coroutine holds the loop until its await: no other task   *)
(* of the loop runs in between.                                            *)
(***************************************************************************)
\* a reader keeps the dict object it fetched: one that symbol_data drops is
\* no longer written
Detached(r, sd, places) ==
    IF r.pc = "item" /\ r.live /\ r.at \in places
    THEN [r EXCEPT !.live = FALSE, !.ref = sd[r.at]]
    ELSE r

\* the loop of _on_pending_tickers is done with a ticker: the item a reader
\* holds is between two tickers again
EntryDone(r, sd) ==
    IF r.pc = "item" /\ r.live THEN [r EXCEPT !.vers = @ \cup {Fields(sd[r.at])}] ELSE r

RECURSIVE EntriesDone(_, _, _, _)
EntriesDone(r, sd, tickers, now) ==
    IF tickers = <<>> THEN r
    ELSE EntriesDone(EntryDone(r, ApplyTicker(sd, Head(tickers), now)),
                     ApplyTicker(sd, Head(tickers), now), Tail(tickers), now)

Observing(r, cfg) ==
    IF r.pc \in {"iter", "item"} THEN [r EXCEPT !.seen = @ \cup {cfg}] ELSE r

\* for c in current_contracts: ib.cancelMktData(c); current_contracts.clear()
SubCancel(t) ==
    /\ loop = Idle
    /\ sub[t].pc = "scheduled"
    /\ loop' = <<"sub", t>>
    /\ current_contracts' = <<>>
    /\ sub' = [sub EXCEPT ![t].pc = "clear", ![t].calls = CancelCalls(current_contracts)]
    /\ UNCHANGED <<symbol_data, clients, ib_connected, clock, config, bcast,
                   ord, tick, rd, trades>>

\* symbol_data.clear()
SubClear(t) ==
    /\ loop = <<"sub", t>>
    /\ sub[t].pc = "clear"
    /\ symbol_data' = <<>>
    /\ trades' = NoTrades
    /\ config' = {Normalize(sub[t].symbols[j]) : j \in DOMAIN sub[t].symbols}
    /\ sub' = [sub EXCEPT ![t].pc = "install", ![t].i = 1,
                          ![t].prior = Keys(symbol_data)]
    /\ rd' = Observing(Detached(rd, symbol_data, DOMAIN symbol_data), config')
    /\ UNCHANGED <<current_contracts, clients, ib_connected, clock, loop,
                   bcast, ord, tick>>

\* symbol_data[sym] = {...} for the next of req.symbols
SubInstall(t) ==
    /\ loop = <<"sub", t>>
    /\ sub[t].pc = "install"
    /\ sub[t].i <= Len(sub[t].symbols)
    /\ LET e == FreshEntry(Normalize(sub[t].symbols[sub[t].i]), sub[t].testMode)
       IN  /\ symbol_data' = DictSet(symbol_data, e)
           /\ rd' = Detached(rd, symbol_data,
                             {j \in DOMAIN symbol_data : symbol_data[j].sym = e.sym})
    /\ sub' = [sub EXCEPT ![t].i = @ + 1]
    /\ UNCHANGED <<current_contracts, clients, ib_connected, clock, loop,
                   config, bcast, ord, tick, trades>>

\* contracts = [...]; await ib.qualifyContractsAsync(*contracts)
SubQualify(t) ==
    /\ loop = <<"sub", t>>
    /\ sub[t].pc = "install"
    /\ sub[t].i > Len(sub[t].symbols)
    /\ loop' = Idle
    /\ sub' = [sub EXCEPT ![t].pc = "await", ![t].prior = {},
                          ![t].contracts = ContractsOf(symbol_data),
                          ![t].calls = @ \o <<<<"qualifyContracts", ContractsOf(symbol_data)>>>>]
    /\ UNCHANGED <<symbol_data, current_contracts, clients, ib_connected,
                   clock, config, bcast, ord, tick, rd, trades>>

(***************************************************************************)
(* get_watchlist on an HTTP worker thread: the dict comprehension over     *)
(* symbol_data.items(), one iterator step or one field read at a time.     *)
(***************************************************************************)
FieldNames == <<"price", "hod", "lod", "vwap">>

\* iter(symbol_data.items())
GetWatchlistStart ==
    /\ rd.pc \in {"idle", "done", "raised"}
    /\ rd' = [IdleRd EXCEPT !.pc = "iter", !.di_used = Len(symbol_data), !.di_pos = 1,
                            !.seen = {config} \cup
                                {sub[t].prior : t \in {u \in SubIds : sub[u].pc = "install"}}]
    /\ UNCHANGED <<symbol_data, current_contracts, clients, ib_connected,
                   clock, loop, config, sub, bcast, ord, tick, trades>>

\* next() of the iterator: RuntimeError if the dict has another size than at
\* the start, the end of the loop past the last place, else the item at di_pos
GetWatchlistNext ==
    /\ rd.pc = "iter"
    /\ rd' = IF rd.di_used # Len(symbol_data) THEN [rd EXCEPT !.pc = "raised"]
             ELSE IF rd.di_pos > Len(symbol_data) THEN [rd EXCEPT !.pc = "done"]
             ELSE [rd EXCEPT !.pc = "item", !.sym = symbol_data[rd.di_pos].sym,
                             !.at = rd.di_pos, !.live = TRUE, !.di_pos = @ + 1,
                             !.k = 1,
                             !.vers = {Fields(IF tick.pc \notin {"idle", "ticker"}
                                                 /\ tick.at = rd.di_pos
                                              THEN tick.before
                                              ELSE symbol_data[rd.di_pos])}]
    /\ UNCHANGED <<symbol_data, current_contracts, clients, ib_connected,
                   clock, loop, config, sub, bcast, ord, tick, trades>>

\* entry["price"], entry["hod"], entry["lod"], entry["vwap"], then the item
\* is stored under its key
GetWatchlistField ==
    /\ rd.pc = "item"
    /\ LET e == IF rd.live THEN symbol_data[rd.at] ELSE rd.ref
           cur == [rd.cur EXCEPT ![FieldNames[rd.k]] = e[FieldNames[rd.k]]]
       IN  rd' = IF rd.k < Len(FieldNames)
                 THEN [rd EXCEPT !.k = @ + 1, !.cur = cur]
                 ELSE [rd EXCEPT !.pc = "iter", !.k = 0, !.live = FALSE,
                                 !.cur = IdleRd.cur, !.vers = {},
                                 !.out = [s \in DOMAIN rd.out \cup {rd.sym} |->
                                             IF s = rd.sym THEN cur ELSE rd.out[s]]]
    /\ UNCHANGED <<symbol_data, current_contracts, clients, ib_connected,
                   clock, loop, config, sub, bcast, ord, tick, trades>>

(***************************************************************************)
(* _on_pending_tickers, called on the IB loop with a batch of tickers.     *)
(***************************************************************************)
\* a slip: the callback run from another thread than the IB loop's, whatever
\* the loop is in the middle of
OnPendingTickers_OffLoop(tickers) ==
    /\ ib_connected
    /\ bcast.pending < MaxPending
    /\ symbol_data' = ApplyTickers(symbol_data, tickers, clock)
    /\ trades' = RecordTrades(trades, symbol_data, tickers, clock)
    /\ \A i \in DOMAIN symbol_data' : symbol_data'[i].vwap_den <= F(MaxVolume)
    /\ rd' = EntriesDone(rd, symbol_data, tickers, clock)
    /\ bcast' = [bcast EXCEPT !.pending = @ + 1]
    /\ UNCHANGED <<current_contracts, clients, ib_connected, clock, loop,
                   config, sub, ord, tick>>

OnPendingTickers(tickers) ==
    /\ ib_connected
    /\ loop = Idle
    /\ bcast.pending < MaxPending
    /\ symbol_data' = ApplyTickers(symbol_data, tickers, clock)
    /\ trades' = RecordTrades(trades, symbol_data, tickers, clock)
    /\ \A i \in DOMAIN symbol_data' : symbol_data'[i].vwap_den <= F(MaxVolume)
    /\ rd' = EntriesDone(rd, symbol_data, tickers, clock)
    /\ bcast' = [bcast EXCEPT !.pending = @ + 1]
    /\ UNCHANGED <<current_contracts, clients, ib_connected, clock, loop,
                   config, sub, ord, tick>>

(***************************************************************************)
(* _on_pending_tickers statement by statement, as a thread that reads      *)
(* symbol_data sees it.  The callback holds the IB loop from its first     *)
(* line to its last.                                                       *)
(***************************************************************************)
\* now = datetime.now().time(); for t in tickers
TickStart(tickers) ==
    /\ ib_connected
    /\ loop = Idle
    /\ bcast.pending < MaxPending
    /\ \A i \in DOMAIN symbol_data :
          ApplyTickers(symbol_data, tickers, clock)[i].vwap_den <= F(MaxVolume)
    /\ loop' = <<"tick", 0>>
    /\ tick' = [IdleTick EXCEPT !.pc = "ticker", !.batch = tickers, !.i = 1,
                                !.now = clock]
    /\ trades' = RecordTrades(trades, symbol_data, tickers, clock)
    /\ UNCHANGED <<symbol_data, current_contracts, clients, ib_connected,
                   clock, config, sub, bcast, ord, rd>>

\* the next ticker: lines 39-47, which write nothing
TickTicker ==
    /\ tick.pc = "ticker"
    /\ tick.i <= Len(tick.batch)
    /\ LET t == tick.batch[tick.i]
       IN  tick' = IF ~Has(symbol_data, t.symbol) \/ ~IsFinite(ResolvePrice(t))
                   THEN [tick EXCEPT !.i = @ + 1]
                   ELSE [tick EXCEPT
                           !.pc = "price",
                           !.at = IndexOf(symbol_data, t.symbol),
                           !.in_rth = InRth(Get(symbol_data, t.symbol), tick.now),
                           !.p = ResolvePrice(t),
                           !.size = LastSize(t),
                           !.seeded = FALSE,
                           !.before = Get(symbol_data, t.symbol)]
    /\ UNCHANGED <<symbol_data, current_contracts, clients, ib_connected,
                   clock, loop, config, sub, bcast, ord, rd, trades>>

\* entry["price"] = p
TickPrice ==
    /\ tick.pc = "price"
    /\ symbol_data' = [symbol_data EXCEPT ![tick.at] = StmtPrice(@, tick.p)]
    /\ tick' = [tick EXCEPT !.pc = "seedhod"]
    /\ UNCHANGED <<current_contracts, clients, ib_connected, clock, loop,
                   config, sub, bcast, ord, rd, trades>>

\* if in_rth and entry["hod"] is None: entry["hod"] = p
TickSeedHod ==
    /\ tick.pc = "seedhod"
    /\ symbol_data' = [symbol_data EXCEPT ![tick.at] = StmtSeedHod(@, tick.p, tick.in_rth)]
    /\ tick' = IF tick.in_rth /\ symbol_data[tick.at].hod = None
               THEN [tick EXCEPT !.pc = "seedlod", !.seeded = TRUE]
               ELSE [tick EXCEPT !.pc = "hod"]
    /\ UNCHANGED <<current_contracts, clients, ib_connected, clock, loop,
                   config, sub, bcast, ord, rd, trades>>

\* entry["lod"] = p, in the branch of the test above
TickSeedLod ==
    /\ tick.pc = "seedlod"
    /\ symbol_data' = [symbol_data EXCEPT ![tick.at] = StmtSeedLod(@, tick.p, tick.seeded)]
    /\ tick' = [tick EXCEPT !.pc = "hod"]
    /\ UNCHANGED <<current_contracts, clients, ib_connected, clock, loop,
                   config, sub, bcast, ord, rd, trades>>

\* if in_rth: if p > entry["hod"]: entry["hod"] = p
TickHod ==
    /\ tick.pc = "hod"
    /\ symbol_data' = [symbol_data EXCEPT ![tick.at] = StmtHod(@, tick.p, tick.in_rth)]
    /\ tick' = IF tick.in_rth THEN [tick EXCEPT !.pc = "lod"]
               ELSE [tick EXCEPT !.pc = "ticker", !.i = @ + 1]
    /\ rd' = IF tick.in_rth THEN rd ELSE EntryDone(rd, symbol_data')
    /\ UNCHANGED <<current_contracts, clients, ib_connected, clock, loop,
                   config, sub, bcast, ord, trades>>

\* if p < entry["lod"]: entry["lod"] = p; size = ...; if size > 0
TickLod ==
    /\ tick.pc = "lod"
    /\ symbol_data' = [symbol_data EXCEPT ![tick.at] = StmtLod(@, tick.p, tick.in_rth)]
    /\ tick' = IF SizePositive(tick.size) THEN [tick EXCEPT !.pc = "vwap_num"]
               ELSE [tick EXCEPT !.pc = "ticker", !.i = @ + 1]
    /\ rd' = IF SizePositive(tick.size) THEN rd ELSE EntryDone(rd, symbol_data')
    /\ UNCHANGED <<current_contracts, clients, ib_connected, clock, loop,
                   config, sub, bcast, ord, trades>>

\* entry["vwap_num"] += p * size
TickVwapNum ==
    /\ tick.pc = "vwap_num"
    /\ symbol_data' = [symbol_data EXCEPT ![tick.at] =
                          StmtVwapNum(@, tick.p, tick.size, tick.in_rth)]
    /\ tick' = [tick EXCEPT !.pc = "vwap_den"]
    /\ UNCHANGED <<current_contracts, clients, ib_connected, clock, loop,
                   config, sub, bcast, ord, rd, trades>>

\* entry["vwap_den"] += size
TickVwapDen ==
    /\ tick.pc = "vwap_den"
    /\ symbol_data' = [symbol_data EXCEPT ![tick.at] =
                          StmtVwapDen(@, tick.size, tick.in_rth)]
    /\ tick' = [tick EXCEPT !.pc = "vwap"]
    /\ UNCHANGED <<current_contracts, clients, ib_connected, clock, loop,
                   config, sub, bcast, ord, rd, trades>>

\* entry["vwap"] = entry["vwap_num"] / entry["vwap_den"]
TickVwap ==
    /\ tick.pc = "vwap"
    /\ symbol_data' = [symbol_data EXCEPT ![tick.at] =
                          StmtVwap(@, tick.size, tick.in_rth)]
    /\ tick' = [tick EXCEPT !.pc = "ticker", !.i = @ + 1]
    /\ rd' = EntryDone(rd, symbol_data')
    /\ UNCHANGED <<current_contracts, clients, ib_connected, clock, loop,
                   config, sub, bcast, ord, trades>>

\* past the last ticker: asyncio.run_coroutine_threadsafe(_broadcast_update(), ib.loop)
TickEnd ==
    /\ tick.pc = "ticker"
    /\ tick.i > Len(tick.batch)
    /\ tick' = IdleTick
    /\ loop' = Idle
    /\ bcast' = [bcast EXCEPT !.pending = @ + 1]
    /\ UNCHANGED <<symbol_data, current_contracts, clients, ib_connected,
                   clock, config, sub, ord, rd, trades>>

(***************************************************************************)
(* _broadcast_update on the IB loop: the payload is built and the loop     *)
(* over clients entered without an await; each send is an await.           *)
(***************************************************************************)
BroadcastStart ==
    /\ loop = Idle
    /\ bcast.pending > 0
    /\ bcast.pc = "idle"
    /\ bcast' = IF clients = {}
                THEN [IdleBcast EXCEPT !.pending = bcast.pending - 1]
                ELSE [IdleBcast EXCEPT !.pending = bcast.pending - 1, !.pc = "sending",
                                       !.payload = Snapshot(symbol_data),
                                       !.si_used = Cardinality(clients),
                                       !.start = clients]
    /\ UNCHANGED <<symbol_data, current_contracts, clients, ib_connected,
                   clock, loop, config, sub, ord, tick, rd, trades>>

\* one pass of "for ws in clients": the set iterator finds the set at the
\* size it started with, yields a member not yet visited (in hash order, which
\* is arbitrary), and the send to it succeeds or raises
BroadcastSend(ws, ok) ==
    /\ loop = Idle
    /\ bcast.pc = "sending"
    /\ Cardinality(clients) = bcast.si_used
    /\ ws \in clients \ bcast.visited
    /\ bcast' = [bcast EXCEPT !.visited = @ \cup {ws},
                              !.delivered = IF ok THEN @ \cup {ws} ELSE @,
                              !.to_remove = IF ok THEN @ ELSE @ \cup {ws}]
    /\ UNCHANGED <<symbol_data, current_contracts, clients, ib_connected,
                   clock, loop, config, sub, ord, tick, rd, trades>>

\* the iterator is exhausted: the members it started with are all visited (one
\* added since may have been put behind its position); the failed are discarded
BroadcastEnd ==
    /\ loop = Idle
    /\ bcast.pc = "sending"
    /\ Cardinality(clients) = bcast.si_used
    /\ (clients \cap bcast.start) \ bcast.visited = {}
    /\ clients' = clients \ bcast.to_remove
    /\ bcast' = [IdleBcast EXCEPT !.pending = bcast.pending]
    /\ UNCHANGED <<symbol_data, current_contracts, ib_connected, clock, loop,
                   config, sub, ord, tick, rd, trades>>

\* the iterator finds the set at another size: RuntimeError("Set changed size
\* during iteration") ends the coroutine, outside its try
BroadcastRaise ==
    /\ loop = Idle
    /\ bcast.pc = "sending"
    /\ Cardinality(clients) # bcast.si_used
    /\ bcast' = [IdleBcast EXCEPT !.pending = bcast.pending]
    /\ UNCHANGED <<symbol_data, current_contracts, clients, ib_connected,
                   clock, loop, config, sub, ord, tick, rd, trades>>

(***************************************************************************)
(* watchlist_ws, on the web server's loop (another thread).                *)
(***************************************************************************)
WsIds == 1..MaxClients

\* await ws.accept(); clients.add(ws)
WsConnect(ws) ==
    /\ ws \notin clients
    /\ clients' = clients \cup {ws}
    /\ UNCHANGED <<symbol_data, current_contracts, ib_connected, clock, loop,
                   config, sub, bcast, ord, tick, rd, trades>>

\* except WebSocketDisconnect: clients.discard(ws)
WsDisconnect(ws) ==
    /\ ws \in clients
    /\ clients' = clients \ {ws}
    /\ bcast' = IF bcast.pc = "sending" /\ ws \in bcast.start
                THEN [bcast EXCEPT !.gone = @ \cup {ws}] ELSE bcast
    /\ UNCHANGED <<symbol_data, current_contracts, ib_connected, clock, loop,
                   config, sub, ord, tick, rd, trades>>

(***************************************************************************)
(* place_order on an HTTP worker thread, _do_order on the IB loop.         *)
(***************************************************************************)
PlaceOrder(req) ==
    /\ ord.pc = "free"
    /\ ord' = IF ~ib_connected
              THEN [FreeOrd EXCEPT !.resp = Resp(503, "IB Gateway not connected")]
              ELSE [FreeOrd EXCEPT !.pc = "scheduled", !.symbol = Normalize(req.symbol),
                                   !.side = req.side, !.ref = req.ref,
                                   !.customStop = req.customStop, !.resp = Pending]
    /\ UNCHANGED <<symbol_data, current_contracts, clients, ib_connected,
                   clock, loop, config, sub, bcast, tick, rd, trades>>

\* from the start of _do_order to its raise or to its await
DoOrderSync ==
    /\ loop = Idle
    /\ ord.pc = "scheduled"
    /\ LET r == DoOrderCompute(symbol_data, ord.symbol, ord.side, ord.ref, ord.customStop)
       IN  ord' = [ord EXCEPT !.exc = r.exc, !.price = r.price, !.stop = r.stop,
                              !.risk = r.risk, !.qty = r.qty,
                              !.pc = IF r.exc = NoExc THEN "await" ELSE "done",
                              !.calls = IF r.exc = NoExc
                                        THEN <<<<"qualifyContracts", ord.symbol>>>>
                                        ELSE <<>>]
    /\ UNCHANGED <<symbol_data, current_contracts, clients, ib_connected,
                   clock, loop, config, sub, bcast, tick, rd, trades>>

\* a slip: the price read again after the await, for the result
DoOrderResume_ReadsPriceAgain ==
    /\ loop = Idle
    /\ ord.pc = "await"
    /\ ord' = [ord EXCEPT !.pc = "done",
                          !.price = IF Has(symbol_data, ord.symbol)
                                    THEN Get(symbol_data, ord.symbol).price ELSE @,
                          !.calls = Append(@, <<"placeOrder", ord.symbol, ord.side, ord.qty>>)]
    /\ UNCHANGED <<symbol_data, current_contracts, clients, ib_connected,
                   clock, loop, config, sub, bcast, tick, rd, trades>>

\* after the await: ib.placeOrder and the return
DoOrderResume ==
    /\ loop = Idle
    /\ ord.pc = "await"
    /\ ord' = [ord EXCEPT !.pc = "done",
                          !.calls = Append(@, <<"placeOrder", ord.symbol, ord.side, ord.qty>>)]
    /\ UNCHANGED <<symbol_data, current_contracts, clients, ib_connected,
                   clock, loop, config, sub, bcast, tick, rd, trades>>

\* fut.result(timeout=10) returns or raises what the coroutine raised
PlaceOrderReturn ==
    /\ ord.pc = "done"
    /\ ord' = [FreeOrd EXCEPT !.resp = IF ord.resp = Pending THEN OrderHttp(ord.exc)
                                       ELSE ord.resp]
    /\ UNCHANGED <<symbol_data, current_contracts, clients, ib_connected,
                   clock, loop, config, sub, bcast, tick, rd, trades>>

\* fut.result(timeout=10) times out: a 500 for the caller, the coroutine goes on
PlaceOrderTimeout ==
    /\ ord.pc \in {"scheduled", "await"}
    /\ ord.resp = Pending
    /\ ord' = [ord EXCEPT !.resp = Resp(500, "Order error")]
    /\ UNCHANGED <<symbol_data, current_contracts, clients, ib_connected,
                   clock, loop, config, sub, bcast, tick, rd, trades>>

vars == <<symbol_data, current_contracts, clients, ib_connected, clock, loop,
          config, sub, bcast, ord, tick, rd, trades>>

Init ==
    /\ symbol_data = <<>>
    /\ current_contracts = <<>>
    /\ clients = {}
    /\ ib_connected = FALSE
    /\ clock = TRADING_START - 1
    /\ loop = Idle
    /\ config = {}
    /\ sub = [t \in SubIds |-> FreeSub]
    /\ bcast = IdleBcast
    /\ ord = FreeOrd
    /\ tick = IdleTick
    /\ rd = IdleRd
    /\ trades = NoTrades

(***************************************************************************)
(* Spec: the aggregation engine.  One watchlist request at a time, each    *)
(* for at most one symbol; every kind of tick, in and out of session; the  *)
(* broadcasts the ticks schedule; no streaming client connected.           *)
(***************************************************************************)
SingleReqs == {r \in WatchlistReqs : Len(r.symbols) <= 1}

TickBatches ==
    {<<t>> : t \in Tickers}
    \cup {<<t, u>> : t \in {x \in Tickers : x.last = NaN /\ x.lastSize = NaN},
                     u \in {x \in Tickers : x.last = F(105) /\ x.lastSize = F(2)
                                            /\ x.marketPrice = NaN}}

Next ==
    \/ IbWorkerConnect
    \/ ClockAdvance
    \/ \E req \in SingleReqs : UpdateWatchlist(1, req)
    \/ WatchlistReturn(1)
    \/ WatchlistTimeout(1)
    \/ SubscribeSync(1)
    \/ SubscribeResume(1)
    \/ \E tickers \in TickBatches : OnPendingTickers(tickers)
    \/ BroadcastStart

Spec == Init /\ [][Next]_vars

(***************************************************************************)
(* SpecOrder: the order sizer.  A watchlist of one symbol in test mode,    *)
(* trades that move its price, range and vwap, and order requests.         *)
(***************************************************************************)
OrderWatchlist == [symbols |-> <<<<" ", "a">>>>, testMode |-> TRUE]

OrderTickers ==
    {t \in Tickers : /\ t.symbol = Normalize(<<" ", "a">>)
                     /\ t.last \in Prices
                     /\ t.marketPrice = NaN
                     /\ t.lastSize \in {F(0), F(2)}}

OrderReqs ==
    [symbol : {<<" ", "a">>, <<"b", " ">>}, side : Sides, ref : Refs,
     customStop : {None}]
    \cup [symbol : {<<" ", "a">>}, side : Sides, ref : {"CUSTOM"},
          customStop : {F(103), F(125)}]

NextOrder ==
    \/ IbWorkerConnect
    \/ UpdateWatchlist(1, OrderWatchlist)
    \/ WatchlistReturn(1)
    \/ SubscribeSync(1)
    \/ SubscribeResume(1)
    \/ \E t \in OrderTickers : OnPendingTickers(<<t>>)
    \/ BroadcastStart
    \/ \E req \in OrderReqs : PlaceOrder(req)
    \/ DoOrderSync
    \/ DoOrderResume
    \/ PlaceOrderReturn
    \/ PlaceOrderTimeout

SpecOrder == Init /\ [][NextOrder]_vars

(***************************************************************************)
(* SpecBcast: the broadcaster.  A watchlist of one symbol, one kind of     *)
(* trade, websockets that connect and disconnect, and the broadcasts.      *)
(***************************************************************************)
BcastTickers ==
    {t \in OrderTickers : t.last = F(100) /\ t.lastSize = F(0)}

NextBcast ==
    \/ IbWorkerConnect
    \/ UpdateWatchlist(1, OrderWatchlist)
    \/ WatchlistReturn(1)
    \/ SubscribeSync(1)
    \/ SubscribeResume(1)
    \/ \E t \in BcastTickers : OnPendingTickers(<<t>>)
    \/ BroadcastStart
    \/ \E ws \in WsIds, ok \in BOOLEAN : BroadcastSend(ws, ok)
    \/ BroadcastEnd
    \/ BroadcastRaise
    \/ \E ws \in WsIds : WsConnect(ws)
    \/ \E ws \in WsIds : WsDisconnect(ws)

SpecBcast == Init /\ [][NextBcast]_vars

(***************************************************************************)
(* SpecRead: readers against resubscription.  Two watchlists that replace  *)
(* each other (A and B in test mode, B alone without), _subscribe          *)
(* statement by statement, one kind of trade per symbol, get_watchlist     *)
(* calls on their thread.                                                  *)
(***************************************************************************)
ReadReqs ==
    {r \in WatchlistReqs :
        \/ r.symbols = <<<<" ", "a">>, <<"b", " ">>>> /\ r.testMode
        \/ r.symbols = <<<<"b", " ">>>> /\ ~r.testMode}

ReadTickers ==
    {t \in Tickers : t.last = F(100) /\ t.marketPrice = NaN /\ t.lastSize = F(2)}

NextRead ==
    \/ IbWorkerConnect
    \/ \E req \in ReadReqs : UpdateWatchlist(1, req)
    \/ WatchlistReturn(1)
    \/ SubCancel(1)
    \/ SubClear(1)
    \/ SubInstall(1)
    \/ SubQualify(1)
    \/ SubscribeResume(1)
    \/ \E t \in ReadTickers : OnPendingTickers(<<t>>)
    \/ BroadcastStart
    \/ GetWatchlistStart
    \/ GetWatchlistNext
    \/ GetWatchlistField

SpecRead == Init /\ [][NextRead]_vars

(***************************************************************************)
(* SpecTear: readers against ticks.  A watchlist of one symbol in test     *)
(* mode, _subscribe and _on_pending_tickers statement by statement, trades *)
(* with and without a price of their own, get_watchlist calls on their     *)
(* thread.                                                                 *)
(***************************************************************************)
TearTickers ==
    {t \in Tickers :
        /\ t.symbol = Normalize(<<" ", "a">>)
        /\ \/ t.last = F(100) /\ t.marketPrice = NaN /\ t.lastSize = F(2)
           \/ t.last = NaN /\ t.lastSize = F(2)
           \/ t.last = None /\ t.marketPrice = F(100) /\ t.lastSize = F(0)}

NextTear ==
    \/ IbWorkerConnect
    \/ UpdateWatchlist(1, OrderWatchlist)
    \/ WatchlistReturn(1)
    \/ SubCancel(1)
    \/ SubClear(1)
    \/ SubInstall(1)
    \/ SubQualify(1)
    \/ SubscribeResume(1)
    \/ \E t \in TearTickers : TickStart(<<t>>)
    \/ TickTicker
    \/ TickPrice
    \/ TickSeedHod
    \/ TickSeedLod
    \/ TickHod
    \/ TickLod
    \/ TickVwapNum
    \/ TickVwapDen
    \/ TickVwap
    \/ TickEnd
    \/ BroadcastStart
    \/ GetWatchlistStart
    \/ GetWatchlistNext
    \/ GetWatchlistField

SpecTear == Init /\ [][NextTear]_vars

(***************************************************************************)
(* SpecSubs: watchlist requests that overlap.  NSubs requests at a time,   *)
(* each for one of two symbols, their coroutines from start to await and   *)
(* from await to end in any order, callers that time out, and trades.      *)
(***************************************************************************)
SubsReqs ==
    {r \in WatchlistReqs : Len(r.symbols) = 1 /\ r.symbols[1] # <<"A">> /\ r.testMode}

NextSubs ==
    \/ IbWorkerConnect
    \/ \E t \in SubIds, req \in SubsReqs : UpdateWatchlist(t, req)
    \/ \E t \in SubIds : WatchlistReturn(t)
    \/ \E t \in SubIds : WatchlistTimeout(t)
    \/ \E t \in SubIds : SubscribeSync(t)
    \/ \E t \in SubIds : SubscribeResume(t)
    \/ \E t \in ReadTickers : OnPendingTickers(<<t>>)
    \/ BroadcastStart

SpecSubs == Init /\ [][NextSubs]_vars

(***************************************************************************)
(* Properties.                                                             *)
(***************************************************************************)
\* C1: whatever interleaves with it, a GetWatchlist response holds exactly the
\* symbols of one configuration that was current at some moment of the call,
\* and a broadcast payload exactly those of the configuration current when
\* it is built.
C1_ResponsesShowOneConfiguration ==
    /\ rd.pc = "done" => DOMAIN rd.out \in rd.seen
    /\ bcast.pc = "sending" => DOMAIN bcast.payload \in {config} \cup rd.seen

\* the broadcast half of C1 on its own: a payload is built from the whole of
\* the current configuration
C1_PayloadShowsCurrentConfiguration ==
    [][(bcast'.pending = bcast.pending - 1) => Keys(symbol_data) = config]_vars

\* the entry the specification states for a symbol just installed
StatedFreshEntry(sym, testMode) ==
    [sym |-> sym, price |-> None, hod |-> None, lod |-> None, vwap_num |-> 0,
     vwap_den |-> 0, vwap |-> None, testMode |-> testMode]

\* _subscribe has stored the entry of the last symbol of its request
Installed(t) == sub[t].pc = "install" /\ sub[t].i > Len(sub[t].symbols)

\* C3: once a subscribe has installed its state, GetWatchlist holds the
\* symbols of the new list and no other, and every one of them has price, hod,
\* lod and vwap null, both accumulators zero and the testMode of the request.
C3_ResubscribeInstallsFreshState ==
    \A t \in SubIds :
        Installed(t) =>
            /\ DOMAIN Snapshot(symbol_data)
                   = {Normalize(sub[t].symbols[j]) : j \in DOMAIN sub[t].symbols}
            /\ \A s \in DOMAIN Snapshot(symbol_data) :
                   Snapshot(symbol_data)[s]
                       = [price |-> None, hod |-> None, lod |-> None, vwap |-> None]
            /\ \A i \in DOMAIN symbol_data :
                   symbol_data[i]
                       = StatedFreshEntry(symbol_data[i].sym, sub[t].testMode)

\* C3 witness: a reader has been given a price for B and values for A, the
\* subscriptions of both were cancelled, and the new list (B alone, without
\* testMode) is installed
C3_Witness ==
    /\ Installed(1)
    /\ Len(sub[1].calls) = 2
    /\ sub[1].symbols = <<<<"b", " ">>>>
    /\ rd.pc = "done"
    /\ DOMAIN rd.out = {<<"A">>, <<"B">>}
    /\ rd.out[<<"B">>].price = F(100)
    /\ rd.out[<<"B">>].vwap = F(100)

\* a step of _on_pending_tickers: it always ends by scheduling a broadcast
TickStep == bcast'.pending = bcast.pending + 1

\* C2: for a tracked symbol whose testMode is false, a tick applied outside
\* the regular session may change price but leaves hod, lod, vwap and both
\* VWAP accumulators as they were.
C2_OutOfSessionTicksOnlyMovePrice ==
    [][(TickStep /\ ~InSession(clock)) =>
        \A i \in DOMAIN symbol_data :
            ~symbol_data[i].testMode =>
                /\ i \in DOMAIN symbol_data'
                /\ symbol_data'[i] =
                       [symbol_data[i] EXCEPT !.price = symbol_data'[i].price]]_vars

\* C2 witness: a symbol without testMode whose range and vwap were set in
\* session and whose price has since left the range, out of session
C2_Witness ==
    \E i \in DOMAIN symbol_data :
        /\ ~symbol_data[i].testMode
        /\ ~InSession(clock)
        /\ symbol_data[i].hod # None
        /\ symbol_data[i].vwap # None
        /\ symbol_data[i].price > symbol_data[i].hod

(***************************************************************************)
(* The order sizer as the specification states it.                         *)
(***************************************************************************)
\* ib.placeOrder was called for the request
Placed(o) == \E k \in DOMAIN o.calls : o.calls[k][1] = "placeOrder"

\* SELL with HOD, VWAP or CUSTOM; BUY with LOD, VWAP or CUSTOM
Supported(side, ref) ==
    \/ side = "SELL" /\ ref \in {"HOD", "VWAP", "CUSTOM"}
    \/ side = "BUY" /\ ref \in {"LOD", "VWAP", "CUSTOM"}

\* floor(200 / risk) rounded down to a multiple of 10, for an exact risk > 0
\* given in units of 1/Scale
StatedQuantity(risk) == (((200 * Scale) \div risk) \div 10) * 10

\* the same for the exact risk 1/100
StatedFallbackQuantity == (((200 * 100) \div 1) \div 10) * 10

\* the request got past the tracked-symbol and known-price tests and has a stop
Sized(o) == o.pc = "done" /\ o.price # None /\ o.stop # None

\* C4: for a valid request with a positive risk, the quantity of the placed
\* order is floor(200 / risk) rounded down to a multiple of 10.
C4_PlacedQuantityIsBudgetOverRisk ==
    (Sized(ord) /\ Placed(ord) /\ Supported(ord.side, ord.ref)
        /\ RiskOf(ord.side, ord.stop, ord.price) > 0)
    => ord.qty = StatedQuantity(RiskOf(ord.side, ord.stop, ord.price))

\* C5: a request whose rounded quantity is below 10 fails with
\* QuantityTooSmall and no order is submitted.
C5_SmallQuantityIsRejected ==
    (Sized(ord) /\ Supported(ord.side, ord.ref)
        /\ RiskOf(ord.side, ord.stop, ord.price) > 0
        /\ StatedQuantity(RiskOf(ord.side, ord.stop, ord.price)) < 10)
    => (ord.exc.msg = "QuantityTooSmall" /\ ~Placed(ord))

\* C6: SELL with LOD and BUY with HOD fail with UnsupportedReference and no
\* order is submitted.
C6_UnsupportedReferenceIsRejected ==
    (ord.pc = "done" /\ ord.price # None /\ ~Supported(ord.side, ord.ref))
    => (ord.exc.msg = "UnsupportedReference" /\ ~Placed(ord))

\* C7: when the computed risk is not positive the order is placed all the
\* same, with the quantity floor(200 / 0.01) = 20000.
C7_FallbackQuantityIs20000 ==
    (Sized(ord) /\ Supported(ord.side, ord.ref)
        /\ RiskOf(ord.side, ord.stop, ord.price) <= 0)
    => (ord.exc = NoExc /\ Placed(ord) /\ ord.qty = StatedFallbackQuantity)

\* C8: a request by HOD, LOD or VWAP whose field is still null, for a symbol
\* with a price, fails with 'No reference price for <ref>' as a client
\* error (400), and no order is submitted.
C8_NullReferenceIsClientError ==
    (ord.pc = "done" /\ ord.ref # "CUSTOM" /\ Supported(ord.side, ord.ref)
        /\ ord.price # None /\ ord.stop = None)
    => (OrderHttp(ord.exc) = Resp(400, "No reference price for") /\ ~Placed(ord))

\* C9: CUSTOM without customStop, for a tracked symbol with a price, fails
\* with 'customStop required' before any external call: nothing is
\* qualified or placed, then or later, and no aggregate state changes.
C9_MissingCustomStopFailsBeforeAnyCall ==
    [][/\ (/\ ord.pc = "scheduled" /\ ord'.pc # "scheduled"
           /\ ord.ref = "CUSTOM" /\ ord.customStop = None
           /\ Has(symbol_data, ord.symbol)
           /\ Get(symbol_data, ord.symbol).price # None)
          => /\ ord'.pc = "done"
             /\ ord'.exc = ValueError("customStop required for CUSTOM stop")
             /\ OrderHttp(ord'.exc).status = 400
             /\ ord'.calls = <<>>
             /\ symbol_data' = symbol_data
             /\ current_contracts' = current_contracts
       /\ (ord.pc = "done" /\ ord.exc # NoExc /\ ord'.pc = "done")
          => ord'.calls = <<>>]_vars

\* C9 witness: such a request has failed, its symbol tracked with a price
C9_Witness ==
    /\ ord.pc = "done"
    /\ ord.ref = "CUSTOM" /\ ord.customStop = None
    /\ ord.price # None
    /\ Has(symbol_data, ord.symbol)
    /\ ord.exc.msg = "customStop required for CUSTOM stop"
    /\ ord.calls = <<>>

\* the broadcast that is running ends in this step
BroadcastEnds == bcast.pc = "sending" /\ bcast'.pc = "idle"

\* C10: when a send of a broadcast fails, the subscriber it failed for is
\* removed from the set, and every other subscriber that was in the set for
\* the whole broadcast has received the snapshot when the broadcast ends.
C10_FailedSendDoesNotAbortBroadcast ==
    [][(BroadcastEnds /\ bcast.to_remove # {}) =>
          /\ bcast.to_remove \cap clients' = {}
          /\ (bcast.start \ bcast.gone) \ bcast.to_remove \subseteq bcast.delivered]_vars

\* the same, for a broadcast during which no websocket connected or disconnected
C10_HoldsWhenSetIsStill ==
    [][(BroadcastEnds /\ bcast.to_remove # {} /\ clients = bcast.start) =>
          /\ bcast.to_remove \cap clients' = {}
          /\ bcast.start \ bcast.to_remove \subseteq bcast.delivered]_vars

(***************************************************************************)
(* The aggregates as the specification states them.                        *)
(***************************************************************************)
\* sum(pi * si) and sum(si) over a sequence of <<price, size>>, exact values
\* in units of 1/Scale (sizes are whole numbers of shares)
RECURSIVE SumPriceSize(_)
SumPriceSize(h) ==
    IF h = <<>> THEN 0
    ELSE Head(h)[1] * (Head(h)[2] \div Scale) + SumPriceSize(Tail(h))

RECURSIVE SumSize(_)
SumSize(h) == IF h = <<>> THEN 0 ELSE Head(h)[2] + SumSize(Tail(h))

\* C11: between two calls of _on_pending_tickers, for the in-session trades
\* with positive sizes s1..sn and resolved prices p1..pn fed to a symbol since
\* its subscription, vwap_num = sum(pi*si), vwap_den = sum(si), vwap is their
\* quotient, and vwap is null exactly when vwap_den is 0.
C11_VwapIsSumOverTrades ==
    tick.pc = "idle" =>
        \A i \in DOMAIN symbol_data :
            LET e == symbol_data[i]
                h == trades[e.sym]
            IN  /\ e.vwap_num = SumPriceSize(h)
                /\ e.vwap_den = SumSize(h)
                /\ (e.vwap = None) <=> (e.vwap_den = 0)
                /\ e.vwap_den > 0 => e.vwap = FDiv(SumPriceSize(h), SumSize(h))

\* C11 witness: a symbol fed two trades at different prices
C11_Witness ==
    /\ tick.pc = "idle"
    /\ \E i \in DOMAIN symbol_data :
          /\ Len(trades[symbol_data[i].sym]) = 2
          /\ trades[symbol_data[i].sym][1][1] # trades[symbol_data[i].sym][2][1]
          /\ symbol_data[i].vwap_den = F(4)
          /\ symbol_data[i].vwap \notin Prices

\* C12: once the hod and lod of a symbol are seeded, a tick leaves its hod
\* greater than or equal to what it was and its lod less than or equal.
C12_RangeOnlyWidens ==
    [][TickStep =>
        \A i \in DOMAIN symbol_data :
            (symbol_data[i].hod # None /\ symbol_data[i].lod # None) =>
                /\ i \in DOMAIN symbol_data'
                /\ symbol_data'[i].sym = symbol_data[i].sym
                /\ symbol_data'[i].hod >= symbol_data[i].hod
                /\ symbol_data'[i].lod # None
                /\ symbol_data'[i].lod <= symbol_data[i].lod]_vars

\* C12 witness: a symbol whose range was seeded, then widened, and whose last
\* tick was in session at the other end of the range
C12_Witness ==
    \E i \in DOMAIN symbol_data :
        /\ symbol_data[i].hod = F(105)
        /\ symbol_data[i].lod = F(100)
        /\ symbol_data[i].price = F(100)
        /\ Len(trades[symbol_data[i].sym]) = 2
        /\ trades[symbol_data[i].sym][2][1] = F(100)
        /\ trades[symbol_data[i].sym][1][1] = F(100)

\* hod and lod are null together, and hod >= lod when they are set
Paired(e) ==
    /\ (e.hod = None) <=> (e.lod = None)
    /\ e.hod # None => e.hod >= e.lod

\* C13: in every state a reader can observe, for every tracked symbol, hod is
\* null if and only if lod is null, and hod >= lod when they are set: so it
\* is in symbol_data between two tickers and in every record get_watchlist
\* has built.
C13_HodAndLodSetTogether ==
    /\ tick.pc \in {"idle", "ticker"} =>
           \A i \in DOMAIN symbol_data : Paired(symbol_data[i])
    /\ \A s \in DOMAIN rd.out : Paired(rd.out[s])

\* the same for symbol_data alone, between two tickers
C13_HoldsBetweenTickers ==
    tick.pc \in {"idle", "ticker"} => \A i \in DOMAIN symbol_data : Paired(symbol_data[i])

\* a step of update_watchlist that took a request with no symbols
EmptyListStep(t) ==
    sub[t].pc = "free" /\ sub'[t] # sub[t] /\ sub'[t].symbols = <<>>

\* no coroutine of the request runs, and nothing but its answer changes
NothingChanged(t) ==
    /\ sub'[t].pc = "free"
    /\ sub'[t].calls = <<>>
    /\ symbol_data' = symbol_data
    /\ current_contracts' = current_contracts
    /\ config' = config

\* C14 as stated: a request with an empty list of symbols is answered with
\* the validation error and changes nothing.
C14_EmptyListIsValidationError ==
    [][\A t \in SubIds :
          EmptyListStep(t) =>
              sub'[t].resp = "400 No symbols provided" /\ NothingChanged(t)]_vars

\* C14 amended: such a request changes nothing and issues no external
\* request; it is answered with the validation error when the gateway is
\* connected and with the connectivity error (503) when it is not.
C14_EmptyListRejectedAndNothingChanged ==
    [][\A t \in SubIds :
          EmptyListStep(t) =>
              /\ NothingChanged(t)
              /\ ib_connected => sub'[t].resp = "400 No symbols provided"
              /\ ~ib_connected => sub'[t].resp = "503 IB Gateway not connected"]_vars

\* C14 witness: the validation error answered while a symbol is tracked, has
\* a price and is subscribed
C14_Witness ==
    /\ sub[1].resp = "400 No symbols provided"
    /\ symbol_data # <<>>
    /\ symbol_data[1].price # None
    /\ current_contracts # <<>>

\* C15: whatever websockets connect or disconnect while a broadcast is
\* between two sends, the loop over clients ends without an error, and every
\* websocket that was in the set from its start to its end was sent the
\* snapshot.
C15_BroadcastSurvivesConnects ==
    [][BroadcastEnds =>
          /\ Cardinality(clients) = bcast.si_used
          /\ (bcast.start \ bcast.gone) \subseteq bcast.visited]_vars

\* C16: the record get_watchlist reports for a symbol is what the fields of
\* its entry were at some moment between two tickers, and a broadcast builds
\* its payload at such a moment.
C16_ReportedRecordIsOneVersion ==
    [][/\ (rd.pc = "item" /\ rd'.pc = "iter") => rd'.out[rd.sym] \in rd.vers
       /\ (bcast'.pending = bcast.pending - 1) => tick.pc = "idle"]_vars

\* the broadcast half of C16 on its own
C16_PayloadIsOneVersion ==
    [][(bcast'.pending = bcast.pending - 1) => tick.pc = "idle"]_vars

\* the price the specification states for a ticker: its own if finite, else
\* the market price
EffectivePrice(t) == IF IsFinite(t.last) THEN t.last ELSE t.marketPrice

\* the loop of _on_pending_tickers takes the ticker it is at, of a tracked symbol
TickerStep ==
    /\ tick.pc = "ticker" /\ tick.i <= Len(tick.batch) /\ tick' # tick
    /\ Has(symbol_data, tick.batch[tick.i].symbol)

\* C17: no tick is applied between the clear of a resubscription and the
\* install of its last symbol: every call of _on_pending_tickers finds,
\* and leaves, entries for exactly the symbols of one configuration, with no
\* _subscribe between those two points.
C17_TicksSeeCompleteConfiguration ==
    [][TickStep =>
          /\ \A t \in SubIds : sub[t].pc \notin {"clear", "install"}
          /\ Keys(symbol_data) = config
          /\ Keys(symbol_data') = config]_vars

\* C17 witness: a tick applied while a resubscription waits in its await,
\* after it replaced two symbols by one
C17_Witness ==
    /\ sub[1].pc = "await"
    /\ Len(sub[1].calls) = 3
    /\ Len(symbol_data) = 1
    /\ symbol_data[1].price # None

\* C18: a ticker whose own price is not finite and whose market price is
\* finite is applied with the market price; one with neither finite is
\* dropped and changes nothing.
C18_MarketPriceIsTheFallback ==
    [][/\ TickerStep =>
            IF IsFinite(EffectivePrice(tick.batch[tick.i]))
            THEN tick'.pc = "price" /\ tick'.p = EffectivePrice(tick.batch[tick.i])
            ELSE tick'.pc = "ticker" /\ tick'.i = tick.i + 1 /\ symbol_data' = symbol_data
       /\ tick.pc = "price" /\ tick'.pc # "price" =>
            symbol_data'[tick.at].price = EffectivePrice(tick.batch[tick.i])]_vars

\* the same for the tickers whose own price is None, not NaN
C18_HoldsWhenLastIsNone ==
    [][(TickerStep /\ tick.batch[tick.i].last # NaN) =>
            IF IsFinite(EffectivePrice(tick.batch[tick.i]))
            THEN tick'.pc = "price" /\ tick'.p = EffectivePrice(tick.batch[tick.i])
            ELSE tick'.pc = "ticker" /\ tick'.i = tick.i + 1 /\ symbol_data' = symbol_data]_vars

\* C19: _do_order takes the price and the reference field from one and the
\* same state of the entry, and the entryPrice, stopPrice and quantity it
\* returns, and the quantity it places, are those it computed from that
\* state, whatever ticks arrive before the order is placed.
C19_OrderUsesOneSnapshot ==
    [][/\ (/\ ord.pc = "scheduled" /\ ord'.pc \in {"await", "done"}
           /\ Has(symbol_data, ord.symbol)
           /\ Get(symbol_data, ord.symbol).price # None
           /\ ord.ref # "CUSTOM")
          => /\ ord'.price = Get(symbol_data, ord.symbol).price
             /\ ord'.stop = IF ord.ref = "HOD" THEN Get(symbol_data, ord.symbol).hod
                            ELSE IF ord.ref = "LOD" THEN Get(symbol_data, ord.symbol).lod
                            ELSE Get(symbol_data, ord.symbol).vwap
             /\ symbol_data' = symbol_data
       /\ (ord.pc = "await" /\ ord'.pc \in {"await", "done"})
          => /\ ord'.price = ord.price /\ ord'.stop = ord.stop /\ ord'.qty = ord.qty
             /\ ord'.pc = "done" =>
                    ord'.calls[Len(ord'.calls)] = <<"placeOrder", ord.symbol, ord.side, ord.qty>>]_vars

\* C19 witness: an order placed by a reference field after a tick moved the
\* price during its await
C19_Witness ==
    /\ ord.pc = "done"
    /\ Placed(ord)
    /\ ord.ref = "HOD"
    /\ Has(symbol_data, ord.symbol)
    /\ ord.price = F(100)
    /\ ord.stop = F(100)
    /\ Get(symbol_data, ord.symbol).price = F(105)
    /\ Get(symbol_data, ord.symbol).hod = F(105)

\* no _subscribe is scheduled or waiting in its await
NoSubscribeInProgress == \A t \in SubIds : sub[t].pc \in {"free", "done"}

\* the symbols with a market-data subscription
Subscribed == {current_contracts[i] : i \in DOMAIN current_contracts}

\* C20: whenever no subscribe is in progress, the symbols with an external
\* market-data subscription are the symbols that have an entry.
C20_SubscriptionsMatchEntries ==
    NoSubscribeInProgress => Subscribed = Keys(symbol_data)

\* the same where requests never overlap (one at a time, as in Spec)
C20_HoldsWithoutOverlap ==
    sub[1].pc \in {"free", "done"} => Subscribed = Keys(symbol_data)

=============================================================================
